---- MODULE Spec2Model ----
(***************************************************************************)
(* bilibili_api.dynamic: the post builder (BuildDynmaic), send_dynamic,    *)
(* the credential-guarded operations, the mention resolver (_parse_at)     *)
(* and get_dynamic_page_info.                                              *)
(*                                                                         *)
(* Python strings are sequences of characters, one string per character;   *)
(* a character outside printable ASCII is written as its escape \uXXXX.     *)
(* Where the code has a union type (Optional[...], Union[int, User], a      *)
(* biz_id that is "" or an int or a str) the value is a tagged tuple.      *)
(*                                                                         *)
(* A call that waits (await, sync) takes one step up to each wait and one  *)
(* step from it: between the two, other threads and tasks run.             *)
(***************************************************************************)
EXTENDS Integers, Sequences, FiniteSets, TLC

VARIABLES
    \* BuildDynmaic fields
    contents, pics, attach_card, topic, options,
    \* history: the number of add_image calls made on the builder
    add_image_calls,
    \* the add_vote calls that wait in sync(vote.get_title()), one per thread
    fetching,
    \* for each task, the request its send_dynamic call waits for, if it waits
    sending,
    \* the frame of the call that took the most recent step
    op,        \* the function or method called
    args,      \* the arguments it was given
    cred,      \* the credential it was given
    net,       \* the network calls it has issued so far, in order
    err,       \* the exception it ended with, or "none"
    pc,        \* "done", or the position the call waits at
    \* locals of _parse_at
    text, matches, idx, uid, uid_list, names, new_text, ctrl, ret

builder == <<contents, pics, attach_card, topic, options>>
frame == <<op, args, cred, net, err, pc>>
locals == <<text, matches, idx, uid, uid_list, names, new_text, ctrl, ret>>
vars == <<contents, pics, attach_card, topic, options, add_image_calls,
          fetching, sending, op, args, cred, net, err, pc,
          text, matches, idx, uid, uid_list, names, new_text, ctrl, ret>>

----------------------------------------------------------------------------
\* Bounds of the model

\* fragments and pictures the builder holds
MaxItems == 3
MaxLen == 4
\* threads that wait in add_vote at the same time
MaxFetch == 1

----------------------------------------------------------------------------
\* Python values

None == <<"None">>
PyInt(n) == <<"int", n>>
PyStr(s) == <<"str", s>>
PyDict(d) == <<"dict", d>>
PyObj(cls, attrs) == <<"object", cls, attrs>>

IsInstance(v, cls) ==
    IF cls = "int" THEN v[1] = "int"
    ELSE v[1] = "object" /\ v[2] = cls

Digit(d) == CASE d = 0 -> "0" [] d = 1 -> "1" [] d = 2 -> "2" [] d = 3 -> "3"
              [] d = 4 -> "4" [] d = 5 -> "5" [] d = 6 -> "6" [] d = 7 -> "7"
              [] d = 8 -> "8" [] d = 9 -> "9"

RECURSIVE Str(_)
\* str(n) of a non-negative int
Str(n) == IF n < 10 THEN <<Digit(n)>> ELSE Str(n \div 10) \o <<Digit(n % 10)>>

\* Private name mangling: inside the body of class cls the identifier __x
\* denotes the attribute _cls__x.
Mangle(cls, name) == "_" \o cls \o name

\* enums
SendDynmaicType_TEXT == 1
SendDynmaicType_IMAGE == 2
DynmaicContentType_TEXT == 1
DynmaicContentType_EMOJI == 9
DynmaicContentType_AT == 2
DynmaicContentType_VOTE == 4

----------------------------------------------------------------------------
\* Collaborators that live outside dynamic.py

\* user.User(uid): the id is the private attribute __uid of class User
User(u) == PyObj("User", (Mangle("User", "__uid") :> u))
\* topic.Topic(topic_id): the id is the private attribute __topic_id of class Topic
Topic(topic_id) == PyObj("Topic", (Mangle("Topic", "__topic_id") :> topic_id))
\* vote.Vote(vote_id): vote_id is a public attribute
Vote(vote_id) == PyObj("Vote", ("vote_id" :> vote_id))

Credentials == [sessdata : BOOLEAN, bili_jct : BOOLEAN]
NoCredential == [sessdata |-> FALSE, bili_jct |-> FALSE]

\* Credential.raise_for_no_sessdata / raise_for_no_bili_jct: the exception
\* raised, or "none"
raise_for_no_sessdata(c) ==
    IF c.sessdata THEN "none" ELSE "CredentialNoSessdataException"
raise_for_no_bili_jct(c) ==
    IF c.bili_jct THEN "none" ELSE "CredentialNoBiliJctException"

----------------------------------------------------------------------------
\* Inputs

EmptyStr == <<>>
BuildTexts == {<<"h", "i">>}
EmojiNames == {<<"[", "d", "]">>}
UIDs == {1, 2}
AtUIDs == {12}
VoteIds == {7}
VoteTitles == {<<"t">>}
Pictures == {[url |-> <<"u">>, width |-> 10, height |-> 20],
             [url |-> <<"v">>, width |-> 30, height |-> 40]}
Oids == {3}
TopicIds == {5}
\* the text literal of add_vote (line 351), eight characters
VOTE_TEXT == <<"\\u6211", "\\u53d1", "\\u8d77", "\\u4e86",
               "\\u4e00", "\\u4e2a", "\\u6295", "\\u7968">>

\* set_options(up_choose_comment, close_comment)
OptionFlags == {<<FALSE, FALSE>>, <<TRUE, TRUE>>}

\* the tasks that call send_dynamic
SendTasks == {"task"}

BuilderOps == {"add_text", "add_at", "add_emoji", "add_vote", "add_image",
               "set_attach_card", "set_topic", "set_options"}

----------------------------------------------------------------------------
\* Call frames

\* a call of a builder method that runs to its end: no credential, no
\* network log, no parse
NewFrame(name, a, e) ==
    /\ op' = name
    /\ args' = a
    /\ err' = e
    /\ cred' = NoCredential
    /\ net' = <<>>
    /\ pc' = "done"

NoLocals ==
    /\ text' = <<>>
    /\ matches' = <<>>
    /\ idx' = 0
    /\ uid' = None
    /\ uid_list' = <<>>
    /\ names' = <<>>
    /\ new_text' = <<>>
    /\ ctrl' = <<>>
    /\ ret' = None

\* a result that has not arrived yet
Pending == <<"pending">>

\* room for n more fragments or pictures, counting the vote fragment each
\* waiting add_vote is still to append
Room(n) == Len(contents) + Len(fetching) + Len(pics) + n <= MaxItems

----------------------------------------------------------------------------
\* BuildDynmaic

Fragment(biz_id, type, raw_text) ==
    [biz_id |-> biz_id, type |-> type, raw_text |-> raw_text]

BuildDynmaic_init ==
    /\ contents = <<>>
    /\ pics = <<>>
    /\ attach_card = None
    /\ topic = None
    /\ options = <<>>
    /\ add_image_calls = 0
    /\ fetching = <<>>
    /\ sending = [t \in SendTasks |-> <<>>]

add_text(t) ==
    /\ Room(1)
    /\ contents' = Append(contents,
            Fragment(PyStr(EmptyStr), DynmaicContentType_TEXT, t))
    /\ NewFrame("add_text", [text |-> t], "none")
    /\ NoLocals
    /\ UNCHANGED <<pics, attach_card, topic, options, add_image_calls, fetching, sending>>

\* the fragment add_at appends for a uid
at_fragment(u) ==
    Fragment(PyInt(u), DynmaicContentType_EMOJI, <<"@">> \o Str(u))

add_at(user) ==
    /\ Room(1)
    /\ NoLocals
    /\ UNCHANGED <<pics, attach_card, topic, options, add_image_calls, fetching, sending>>
    /\ IF IsInstance(user, "User")
       THEN IF Mangle("BuildDynmaic", "__uid") \in DOMAIN user[3]
            THEN /\ contents' = Append(contents,
                        at_fragment(user[3][Mangle("BuildDynmaic", "__uid")]))
                 /\ NewFrame("add_at", [user |-> user], "none")
            ELSE /\ contents' = contents
                 /\ NewFrame("add_at", [user |-> user], "AttributeError")
       ELSE /\ contents' = Append(contents, at_fragment(user[2]))
            /\ NewFrame("add_at", [user |-> user], "none")

add_emoji(emoji_name) ==
    /\ Room(1)
    /\ contents' = Append(contents,
            Fragment(PyStr(EmptyStr), DynmaicContentType_EMOJI, emoji_name))
    /\ NewFrame("add_emoji", [emoji_name |-> emoji_name], "none")
    /\ NoLocals
    /\ UNCHANGED <<pics, attach_card, topic, options, add_image_calls, fetching, sending>>

\* lines 344-355 up to the wait: the fixed text is appended, vote is made a
\* Vote, and the thread waits in sync(vote.get_title()); at: (history) the
\* number of fragments when the call was made
add_vote(vote) ==
    /\ Room(2)
    /\ Len(fetching) < MaxFetch
    /\ contents' = Append(contents,
            Fragment(PyStr(EmptyStr), DynmaicContentType_TEXT, VOTE_TEXT))
    /\ fetching' = Append(fetching,
            [arg |-> vote,
             vote |-> IF IsInstance(vote, "int") THEN Vote(vote[2]) ELSE vote,
             at |-> Len(contents)])
    /\ op' = "add_vote"
    /\ args' = [vote |-> vote]
    /\ err' = "none"
    /\ cred' = NoCredential
    /\ net' = <<>>
    /\ pc' = "get_title"
    /\ NoLocals
    /\ UNCHANGED <<pics, attach_card, topic, options, add_image_calls, sending>>

Remove(q, i) == SubSeq(q, 1, i - 1) \o SubSeq(q, i + 1, Len(q))

\* a variant that puts the vote fragment ahead of the last fragment
add_vote_title_before_text(i, title) ==
    /\ i \in 1..Len(fetching)
    /\ fetching' = Remove(fetching, i)
    /\ op' = "add_vote"
    /\ args' = [vote |-> fetching[i].arg]
    /\ cred' = NoCredential
    /\ net' = <<>>
    /\ pc' = "done"
    /\ NoLocals
    /\ UNCHANGED <<pics, attach_card, topic, options, add_image_calls, sending>>
    /\ IF title = None
       THEN /\ contents' = contents
            /\ err' = "ResponseException"
       ELSE /\ contents' = SubSeq(contents, 1, Len(contents) - 1) \o
                    <<Fragment(PyStr(Str(fetching[i].vote[3]["vote_id"])),
                               DynmaicContentType_VOTE, title[2]),
                      contents[Len(contents)]>>
            /\ err' = "none"

\* lines 354-356 from the wait: thread i gets the title and appends the vote
\* fragment; title is the str sync(vote.get_title()) returns, or None when
\* it raises
add_vote_title(i, title) ==
    /\ i \in 1..Len(fetching)
    /\ fetching' = Remove(fetching, i)
    /\ op' = "add_vote"
    /\ args' = [vote |-> fetching[i].arg]
    /\ cred' = NoCredential
    /\ net' = <<>>
    /\ pc' = "done"
    /\ NoLocals
    /\ UNCHANGED <<pics, attach_card, topic, options, add_image_calls, sending>>
    /\ IF title = None
       THEN /\ contents' = contents
            /\ err' = "ResponseException"
       ELSE /\ contents' = Append(contents,
                    Fragment(PyStr(Str(fetching[i].vote[3]["vote_id"])),
                             DynmaicContentType_VOTE, title[2]))
            /\ err' = "none"

add_image(image) ==
    /\ Room(1)
    /\ pics' = Append(pics, [img_src |-> image.url,
                             img_width |-> image.width,
                             img_height |-> image.height])
    /\ add_image_calls' = add_image_calls + 1
    /\ NewFrame("add_image", [image |-> image], "none")
    /\ NoLocals
    /\ UNCHANGED <<contents, attach_card, topic, options, fetching, sending>>

set_attach_card(oid) ==
    /\ attach_card' = PyDict([type |-> 14, biz_id |-> oid,
                              reserve_source |-> 1, reserve_lottery |-> 0])
    /\ NewFrame("set_attach_card", [oid |-> oid], "none")
    /\ NoLocals
    /\ UNCHANGED <<contents, pics, topic, options, add_image_calls, fetching, sending>>

set_topic(t) ==
    /\ NoLocals
    /\ UNCHANGED <<contents, pics, attach_card, options, add_image_calls, fetching, sending>>
    /\ IF IsInstance(t, "Topic")
       THEN IF Mangle("BuildDynmaic", "__topic_id") \in DOMAIN t[3]
            THEN /\ topic' = PyDict([id |-> t[3][Mangle("BuildDynmaic", "__topic_id")]])
                 /\ NewFrame("set_topic", [topic |-> t], "none")
            ELSE /\ topic' = topic
                 /\ NewFrame("set_topic", [topic |-> t], "AttributeError")
       ELSE /\ topic' = PyDict([id |-> t[2]])
            /\ NewFrame("set_topic", [topic |-> t], "none")

\* self.options[k] = 1 for each flag that is true
set_flags(o, up_choose_comment, close_comment) ==
    LET o1 == IF up_choose_comment
              THEN ("up_choose_comment" :> 1) @@ o ELSE o
    IN  IF close_comment THEN ("close_comment" :> 1) @@ o1 ELSE o1

set_options(up_choose_comment, close_comment) ==
    /\ options' = set_flags(options, up_choose_comment, close_comment)
    /\ NewFrame("set_options", [up_choose_comment |-> up_choose_comment, close_comment |-> close_comment], "none")
    /\ NoLocals
    /\ UNCHANGED <<contents, pics, attach_card, topic, add_image_calls, fetching, sending>>

\* a variant that looks at the fragments instead of the pictures
get_dynamic_type_of_contents ==
    IF Len(contents) # 0 THEN SendDynmaicType_IMAGE ELSE SendDynmaicType_TEXT

get_dynamic_type ==
    IF Len(pics) # 0 THEN SendDynmaicType_IMAGE ELSE SendDynmaicType_TEXT

----------------------------------------------------------------------------
\* send_dynamic

\* a variant that leaves attach_card out when no card is set
dyn_req_card_omitted ==
    LET base == [content |-> [contents |-> contents],
                 scene |-> get_dynamic_type,
                 meta |-> [app_meta |->
                     [from |-> "create.dynamic.web", mobi_app |-> "web"]]]
        d1 == IF Len(pics) # 0 THEN ("pics" :> pics) @@ base ELSE base
        d2 == IF topic # None THEN ("topic" :> topic[2]) @@ d1 ELSE d1
        d3 == IF Cardinality(DOMAIN options) > 0
              THEN ("option" :> options) @@ d2 ELSE d2
    IN  IF attach_card # None
        THEN ("attach_card" :> PyDict([common_card |-> attach_card[2]])) @@ d3
        ELSE d3

\* the request body send_dynamic assembles from the builder
dyn_req ==
    LET base == [content |-> [contents |-> contents],
                 scene |-> get_dynamic_type,
                 meta |-> [app_meta |->
                     [from |-> "create.dynamic.web", mobi_app |-> "web"]]]
        d1 == IF Len(pics) # 0 THEN ("pics" :> pics) @@ base ELSE base
        d2 == IF topic # None THEN ("topic" :> topic[2]) @@ d1 ELSE d1
        d3 == IF Cardinality(DOMAIN options) > 0
              THEN ("option" :> options) @@ d2 ELSE d2
    IN  IF attach_card # None
        THEN ("attach_card" :> PyDict([common_card |-> attach_card[2]])) @@ d3
        ELSE ("attach_card" :> None) @@ d3

\* a call of request(...) with the credential it is given
Request(method, api, data, params, credential) ==
    [fn |-> "request", method |-> method, api |-> api,
     data |-> data, params |-> params, credential |-> credential]

\* lines 453-479 up to the wait: the guard, the body, the request; the body
\* goes out as it is when request is called
send_dynamic(task, credential) ==
    /\ sending[task] = <<>>
    /\ op' = "send_dynamic"
    /\ args' = <<>>
    /\ cred' = credential
    /\ NoLocals
    /\ UNCHANGED <<builder, add_image_calls, fetching>>
    /\ LET req == Request("POST", "send.instant", [dyn_req |-> dyn_req],
                          [csrf |-> credential.bili_jct], credential)
       IN  IF raise_for_no_sessdata(credential) # "none"
           THEN /\ err' = raise_for_no_sessdata(credential)
                /\ net' = <<>>
                /\ pc' = "done"
                /\ sending' = sending
           ELSE /\ net' = <<req>>
                /\ err' = "none"
                /\ pc' = "request"
                /\ sending' = [sending EXCEPT ![task] = <<req>>]

Outcomes == {"returns", "raises", "malformed"}

\* what a call ends with when its request has the outcome
Ended(outcome) ==
    CASE outcome = "returns" -> "none"
      [] outcome = "raises" -> "ResponseCodeException"
      [] outcome = "malformed" -> "KeyError"

\* lines 479-480 from the wait: the request of the task's call returns (a
\* Dynamic is made of its dyn_id), raises, or returns a response without
\* dyn_id; the builder is not read again
send_dynamic_ends(task, outcome) ==
    /\ sending[task] # <<>>
    /\ sending' = [sending EXCEPT ![task] = <<>>]
    /\ op' = "send_dynamic"
    /\ args' = <<>>
    /\ cred' = sending[task][1].credential
    /\ net' = sending[task]
    /\ err' = Ended(outcome)
    /\ pc' = "done"
    /\ NoLocals
    /\ UNCHANGED <<builder, add_image_calls, fetching>>

\* the awaited request of any other operation ends: it returns, it raises,
\* or (get_dynamic_page_info, line 620) it returns a response without items
request_ends(outcome) ==
    /\ pc = "request"
    /\ op # "send_dynamic"
    /\ outcome = "malformed" => op = "get_dynamic_page_info"
    /\ pc' = "done"
    /\ err' = Ended(outcome)
    /\ UNCHANGED <<builder, add_image_calls, fetching, sending, op, args,
                   cred, net, locals>>

----------------------------------------------------------------------------
\* String helpers (str.replace, str.index, str.join, re.finditer, json.dumps)

Min(S) == CHOOSE x \in S : \A y \in S : x <= y

\* the characters \s matches in a str pattern: those of str.isspace()
Whitespace ==
    {"\t", "\n", "\\u000b", "\f", "\r", "\\u001c", "\\u001d", "\\u001e",
     "\\u001f", " ", "\\u0085", "\\u00a0", "\\u1680", "\\u2000", "\\u2001",
     "\\u2002", "\\u2003", "\\u2004", "\\u2005", "\\u2006", "\\u2007",
     "\\u2008", "\\u2009", "\\u200a", "\\u2028", "\\u2029", "\\u202f",
     "\\u205f", "\\u3000"}

RECURSIVE Replace(_, _, _)
\* s.replace(old, new) for a non-empty old: every non-overlapping occurrence,
\* left to right
Replace(s, old, new) ==
    IF Len(s) < Len(old) THEN s
    ELSE IF SubSeq(s, 1, Len(old)) = old
         THEN new \o Replace(SubSeq(s, Len(old) + 1, Len(s)), old, new)
         ELSE <<s[1]>> \o Replace(Tail(s), old, new)

\* the 0-based offset of the first occurrence of sub in s, -1 when there is
\* none (where s.index(sub) raises ValueError)
Index(s, sub) ==
    LET hits == {i \in 0..(Len(s) - Len(sub)) :
                    SubSeq(s, i + 1, i + Len(sub)) = sub}
    IN  IF hits = {} THEN -1 ELSE Min(hits)

RECURSIVE Join(_, _)
Join(sep, xs) ==
    IF xs = <<>> THEN <<>>
    ELSE IF Len(xs) = 1 THEN xs[1]
    ELSE xs[1] \o sep \o Join(sep, Tail(xs))

\* The pattern (?<=@).*?(?=\s) tried at the 0-based offset s of t: the end of
\* the shortest match, -1 when there is none.  An empty match is refused at
\* offset noempty (where the previous match was empty).
MatchEnd(t, s, noempty) ==
    LET ends == {e \in s..(Len(t) - 1) :
                    /\ t[e + 1] \in Whitespace
                    /\ ~(e = s /\ s = noempty)
                    /\ \A k \in s..(e - 1) : t[k + 1] # "\n"}
    IN  IF s >= 1 /\ t[s] = "@" /\ ends # {} THEN Min(ends) ELSE -1

RECURSIVE Scan(_, _, _)
Scan(t, pos, noempty) ==
    LET starts == {s \in pos..Len(t) : MatchEnd(t, s, noempty) # -1}
    IN  IF starts = {} THEN <<>>
        ELSE LET s == Min(starts)
                 e == MatchEnd(t, s, noempty)
             IN  <<[start |-> s, end |-> e]>>
                    \o Scan(t, e, IF s = e THEN e ELSE -1)

\* re.finditer(pattern, t): the spans of the matches, in order
finditer(t) == Scan(t, 0, -1)

\* match.group()
group(t, m) == SubSeq(t, m.start + 1, m.end)

JsonKey(k) == <<"\"">> \o k \o <<"\"", ":", " ">>

\* json.dumps of one control record
JsonRecord(r) ==
    <<"{">> \o JsonKey(<<"l", "o", "c", "a", "t", "i", "o", "n">>) \o Str(r.location)
        \o <<",", " ">> \o JsonKey(<<"t", "y", "p", "e">>) \o Str(r.type)
        \o <<",", " ">> \o JsonKey(<<"l", "e", "n", "g", "t", "h">>) \o Str(r.length)
        \o <<",", " ">> \o JsonKey(<<"d", "a", "t", "a">>) \o Str(r.data)
        \o <<"}">>

\* json.dumps(ctrl, ensure_ascii=False)
JsonDumps(c) ==
    <<"[">> \o Join(<<",", " ">>, [i \in 1..Len(c) |-> JsonRecord(c[i])]) \o <<"]">>

RECURSIVE ParseInt(_)
\* int(s) of a string of digits
ParseInt(s) ==
    LET d == CHOOSE x \in 0..9 : Digit(x) = s[Len(s)]
    IN  IF Len(s) = 1 THEN d ELSE 10 * ParseInt(SubSeq(s, 1, Len(s) - 1)) + d

----------------------------------------------------------------------------
\* Inputs of the operations

Alphabet == {"@", " ", "\t", "a", "1"}
RECURSIVE StrsOfLen(_)
StrsOfLen(n) ==
    IF n = 0 THEN {<<>>}
    ELSE {Append(x, c) : x \in StrsOfLen(n - 1), c \in Alphabet}
Texts == UNION {StrsOfLen(n) : n \in 0..MaxLen}
\* display names get_user_info may return
UserNames == {<<"a">>, <<"b">>}
DynamicIds == {100}
DraftIds == {8}
KeyError == <<"KeyError">>
\* an empty list
EmptyList == <<"list">>
\* DynamicType members
DynamicTypes == {<<"DynamicType", "ALL", "all">>, <<"DynamicType", "ANIME", "pgc">>,
                 <<"DynamicType", "ARTICLE", "article">>,
                 <<"DynamicType", "VIDEO", "video">>}

\* truth value of `if v:` for None, an int or an Enum member
Truthy(v) ==
    IF v = None THEN FALSE
    ELSE IF v[1] = "int" THEN v[2] # 0
    ELSE TRUE

\* the first exception a sequence of guards raises, or "none"
FirstError(es) ==
    LET bad == {i \in 1..Len(es) : es[i] # "none"}
    IN  IF bad = {} THEN "none" ELSE es[Min(bad)]

----------------------------------------------------------------------------
\* Operations that check the credential and issue one request

\* a call up to its wait: it runs its guards and issues one request
GuardedRequest(name, a, credential, guards, req) ==
    /\ op' = name
    /\ args' = a
    /\ cred' = credential
    /\ NoLocals
    /\ UNCHANGED <<builder, add_image_calls, fetching, sending>>
    /\ IF FirstError(guards) # "none"
       THEN /\ err' = FirstError(guards)
            /\ net' = <<>>
            /\ pc' = "done"
       ELSE /\ net' = <<req>>
            /\ err' = "none"
            /\ pc' = "request"

upload_image(image, credential) ==
    GuardedRequest("upload_image", [image |-> image], credential,
        <<raise_for_no_sessdata(credential), raise_for_no_bili_jct(credential)>>,
        Request("POST", "send.upload_img",
                [biz |-> "new_dyn", category |-> "daily"], None, credential))

Dynamic_delete(dynamic_id, credential) ==
    GuardedRequest("Dynamic.delete", [dynamic_id |-> dynamic_id], credential,
        <<raise_for_no_sessdata(credential)>>,
        Request("POST", "operate.delete", [dynamic_id |-> dynamic_id], None,
                credential))

get_schedules_list(credential) ==
    GuardedRequest("get_schedules_list", <<>>, credential,
        <<raise_for_no_sessdata(credential)>>,
        Request("GET", "schedule.list", None, None, credential))

send_schedule_now(draft_id, credential) ==
    GuardedRequest("send_schedule_now", [draft_id |-> draft_id], credential,
        <<raise_for_no_sessdata(credential)>>,
        Request("POST", "schedule.publish_now", [draft_id |-> draft_id], None,
                credential))

delete_schedule(draft_id, credential) ==
    GuardedRequest("delete_schedule", [draft_id |-> draft_id], credential,
        <<raise_for_no_sessdata(credential)>>,
        Request("POST", "schedule.delete", [draft_id |-> draft_id], None,
                credential))

\* a call of user.get_self_info and the "mid" of its result
GetSelfInfo(credential, mid) ==
    [fn |-> "get_self_info", credential |-> credential, mid |-> mid]

\* a variant that fetches the self info before it checks the credential
Dynamic_set_like_lookup_first(dynamic_id, status, credential) ==
    /\ op' = "Dynamic.set_like"
    /\ args' = [dynamic_id |-> dynamic_id, status |-> status]
    /\ cred' = credential
    /\ NoLocals
    /\ UNCHANGED <<builder, add_image_calls, fetching, sending>>
    /\ net' = <<GetSelfInfo(credential, Pending)>>
    /\ err' = "none"
    /\ pc' = "get_self_info"

\* lines 249-254 up to the wait: the guards, then the self-info fetch
Dynamic_set_like(dynamic_id, status, credential) ==
    /\ op' = "Dynamic.set_like"
    /\ args' = [dynamic_id |-> dynamic_id, status |-> status]
    /\ cred' = credential
    /\ NoLocals
    /\ UNCHANGED <<builder, add_image_calls, fetching, sending>>
    /\ LET guard == FirstError(<<raise_for_no_sessdata(credential),
                                 raise_for_no_bili_jct(credential)>>)
       IN  IF guard # "none"
           THEN /\ err' = guard
                /\ net' = <<>>
                /\ pc' = "done"
           ELSE /\ net' = <<GetSelfInfo(credential, Pending)>>
                /\ err' = "none"
                /\ pc' = "get_self_info"

\* lines 254-262 from the first wait to the second: mid is the "mid" of the
\* self info, None when the fetch raises, KeyError when the info has none
Dynamic_set_like_self_info(mid) ==
    /\ pc = "get_self_info"
    /\ UNCHANGED <<builder, add_image_calls, fetching, sending, op, args, cred, locals>>
    /\ LET answered == [net EXCEPT ![Len(net)].mid = mid]
       IN  IF mid = None
           THEN /\ net' = answered
                /\ err' = "ResponseCodeException"
                /\ pc' = "done"
           ELSE IF mid = KeyError
           THEN /\ net' = answered
                /\ err' = "KeyError"
                /\ pc' = "done"
           ELSE /\ net' = Append(answered,
                      Request("POST", "operate.like",
                              [dynamic_id |-> args.dynamic_id,
                               up |-> IF args.status THEN 1 ELSE 2,
                               uid |-> mid[2]], None, cred))
                /\ err' = "none"
                /\ pc' = "request"

----------------------------------------------------------------------------
\* get_dynamic_page_info

\* a variant with two independent tests
page_params_both(_type, host_mid, pn, offset) ==
    LET base == [timezone_offset |-> -480, features |-> "itemOpusStyle",
                 offset |-> offset, page |-> pn]
        p1 == IF Truthy(_type) THEN ("type" :> _type[3]) @@ base ELSE base
    IN  IF Truthy(host_mid) THEN ("host_mid" :> host_mid[2]) @@ p1 ELSE p1

\* the query parameters of the request
page_params(_type, host_mid, pn, offset) ==
    LET base == [timezone_offset |-> -480, features |-> "itemOpusStyle",
                 offset |-> offset, page |-> pn]
    IN  IF Truthy(_type) THEN ("type" :> _type[3]) @@ base
        ELSE IF Truthy(host_mid) THEN ("host_mid" :> host_mid[2]) @@ base
        ELSE base

get_dynamic_page_info(credential, _type, host_mid, pn, offset) ==
    GuardedRequest("get_dynamic_page_info",
        [_type |-> _type, host_mid |-> host_mid, pn |-> pn, offset |-> offset],
        credential, <<>>,
        Request("GET", "info.dynamic_page_info", None,
                page_params(_type, host_mid, pn, offset), credential))

----------------------------------------------------------------------------
\* Dynamic.repost, _get_text_data and _parse_at

\* a variant that does not append the space
parse_begin_no_space(t) ==
    /\ text' = t
    /\ matches' = finditer(t)
    /\ idx' = 1
    /\ uid' = None
    /\ uid_list' = <<>>
    /\ names' = <<>>
    /\ new_text' = t
    /\ ctrl' = <<>>
    /\ ret' = None

\* lines 79-84 of _parse_at: the locals before the first lookup
parse_begin(t) ==
    /\ text' = t \o <<" ">>
    /\ matches' = finditer(t \o <<" ">>)
    /\ idx' = 1
    /\ uid' = None
    /\ uid_list' = <<>>
    /\ names' = <<>>
    /\ new_text' = t \o <<" ">>
    /\ ctrl' = <<>>
    /\ ret' = None

\* lines 287-290 and 79-84: the guard, then _parse_at up to its loop
Dynamic_repost(dynamic_id, t, credential) ==
    /\ op' = "Dynamic.repost"
    /\ args' = [dynamic_id |-> dynamic_id, text |-> t]
    /\ cred' = credential
    /\ net' = <<>>
    /\ UNCHANGED <<builder, add_image_calls, fetching, sending>>
    /\ IF raise_for_no_sessdata(credential) # "none"
       THEN /\ err' = raise_for_no_sessdata(credential)
            /\ pc' = "done"
            /\ NoLocals
       ELSE /\ err' = "none"
            /\ pc' = "loop"
            /\ parse_begin(t)

InLoop == pc = "loop" /\ idx <= Len(matches)
uname == group(text, matches[idx])

\* a call of user.name2uid and the uid it gives; a call of
\* User(uid).get_user_info and the name it gives
Name2uid(arg, result) == [fn |-> "name2uid", arg |-> arg, result |-> result]
GetUserInfo(u, name) == [fn |-> "get_user_info", uid |-> u, name |-> name]

\* the log with the outcome of the call that was waited for
Answered(field, value) == [net EXCEPT ![Len(net)][field] = value]

\* lines 85-88 up to the wait: the next match, the name lookup
parse_name2uid ==
    /\ InLoop
    /\ net' = Append(net, Name2uid(uname, Pending))
    /\ pc' = "name2uid"
    /\ UNCHANGED <<builder, add_image_calls, fetching, sending, op, args, cred, err,
                   locals>>

\* a variant that leaves the loop at the first unknown user
parse_match_not_found_break ==
    /\ pc = "name2uid"
    /\ net' = Answered("result", KeyError)
    /\ idx' = Len(matches) + 1
    /\ pc' = "loop"
    /\ UNCHANGED <<builder, add_image_calls, fetching, sending, op, args, cred, err,
                   text, matches, uid, uid_list, names, new_text, ctrl, ret>>

\* lines 88-91 from the wait: the answer has no uid_list or no uid:
\* KeyError, continue
parse_match_not_found ==
    /\ pc = "name2uid"
    /\ net' = Answered("result", KeyError)
    /\ idx' = idx + 1
    /\ pc' = "loop"
    /\ UNCHANGED <<builder, add_image_calls, fetching, sending, op, args, cred, err,
                   text, matches, uid, uid_list, names, new_text, ctrl, ret>>

\* line 88 from the wait: name2uid raises something else than KeyError
parse_match_raises ==
    /\ pc = "name2uid"
    /\ net' = Answered("result", None)
    /\ err' = "NetworkException"
    /\ pc' = "done"
    /\ UNCHANGED <<builder, add_image_calls, fetching, sending, op, args, cred, locals>>

\* line 88 from the wait: the uid_list of the answer is empty, [0] raises
parse_match_empty ==
    /\ pc = "name2uid"
    /\ net' = Answered("result", EmptyList)
    /\ err' = "IndexError"
    /\ pc' = "done"
    /\ UNCHANGED <<builder, add_image_calls, fetching, sending, op, args, cred, locals>>

\* lines 88-94 from the first wait to the second: name2uid gives u, the
\* user info of u is fetched
parse_match_uid(u) ==
    /\ pc = "name2uid"
    /\ uid' = PyInt(u)
    /\ net' = Append(Answered("result", PyInt(u)), GetUserInfo(u, Pending))
    /\ pc' = "get_user_info"
    /\ UNCHANGED <<builder, add_image_calls, fetching, sending, op, args, cred, err,
                   text, matches, idx, uid_list, names, new_text, ctrl, ret>>

\* line 94 from the wait: get_user_info raises
parse_info_raises ==
    /\ pc = "get_user_info"
    /\ net' = Answered("name", None)
    /\ err' = "NetworkException"
    /\ pc' = "done"
    /\ UNCHANGED <<builder, add_image_calls, fetching, sending, op, args, cred, locals>>

\* line 96: the user info has no name
parse_info_no_name ==
    /\ pc = "get_user_info"
    /\ net' = Answered("name", KeyError)
    /\ err' = "KeyError"
    /\ pc' = "done"
    /\ UNCHANGED <<builder, add_image_calls, fetching, sending, op, args, cred, locals>>

\* a variant that records a user only the first time it is mentioned
parse_match_found_once(name) ==
    /\ pc = "get_user_info"
    /\ net' = Answered("name", name)
    /\ IF \E i \in 1..Len(uid_list) : uid_list[i] = Str(uid[2])
       THEN UNCHANGED <<uid_list, names>>
       ELSE /\ uid_list' = Append(uid_list, Str(uid[2]))
            /\ names' = Append(names, name)
    /\ new_text' = Replace(new_text, <<"@">> \o Str(uid[2]) \o <<" ">>,
                                     <<"@">> \o name \o <<" ">>)
    /\ idx' = idx + 1
    /\ pc' = "loop"
    /\ UNCHANGED <<builder, add_image_calls, fetching, sending, op, args, cred, err,
                   text, matches, uid, ctrl, ret>>

\* lines 94-99 from the wait: the user info gives the display name
parse_match_found(name) ==
    /\ pc = "get_user_info"
    /\ net' = Answered("name", name)
    /\ uid_list' = Append(uid_list, Str(uid[2]))
    /\ names' = Append(names, name)
    /\ new_text' = Replace(new_text, <<"@">> \o Str(uid[2]) \o <<" ">>,
                                     <<"@">> \o name \o <<" ">>)
    /\ idx' = idx + 1
    /\ pc' = "loop"
    /\ UNCHANGED <<builder, add_image_calls, fetching, sending, op, args, cred, err,
                   text, matches, uid, ctrl, ret>>

\* the control records of lines 101-109; a location of -1 stands for the
\* ValueError of str.index
control(ns, txt, uids) ==
    [i \in 1..Len(ns) |->
        [location |-> Index(txt, <<"@">> \o ns[i]), type |-> 1,
         length |-> 2 + Len(ns[i]), data |-> ParseInt(uids[i])]]

\* lines 100-111, 124-134 and 291-292: the end of the loop to the request of
\* Dynamic.repost
parse_return ==
    /\ pc = "loop"
    /\ idx > Len(matches)
    /\ UNCHANGED <<builder, add_image_calls, fetching, sending, op, args, cred,
                   text, matches, idx, uid, uid_list, names, new_text>>
    /\ LET c == control(names, new_text, uid_list)
           at_uids == Join(<<",">>, uid_list)
       IN  IF \E i \in 1..Len(c) : c[i].location = -1
           THEN /\ err' = "ValueError"
                /\ pc' = "done"
                /\ ctrl' = SubSeq(c, 1,
                        Min({i \in 1..Len(c) : c[i].location = -1}) - 1)
                /\ ret' = None
                /\ net' = net
           ELSE /\ ctrl' = c
                /\ ret' = <<new_text, at_uids, JsonDumps(c)>>
                /\ net' = Append(net,
                        Request("POST", "operate.repost",
                            [dynamic_id |-> args.dynamic_id, type |-> 4,
                             rid |-> 0, content |-> new_text,
                             extension |-> "{\"emoji_type\":1}",
                             at_uids |-> at_uids, ctrl |-> JsonDumps(c)],
                            None, cred))
                /\ err' = "none"
                /\ pc' = "request"

----------------------------------------------------------------------------
\* Specification of the builder and its submission

InitBuild ==
    /\ BuildDynmaic_init
    /\ op = "none"
    /\ args = <<>>
    /\ cred = NoCredential
    /\ net = <<>>
    /\ err = "none"
    /\ pc = "done"
    /\ text = <<>>
    /\ matches = <<>>
    /\ idx = 0
    /\ uid = None
    /\ uid_list = <<>>
    /\ names = <<>>
    /\ new_text = <<>>
    /\ ctrl = <<>>
    /\ ret = None

NextBuild ==
    \/ \E t \in BuildTexts : add_text(t)
    \/ \E u \in AtUIDs : add_at(PyInt(u)) \/ add_at(User(u))
    \/ \E e \in EmojiNames : add_emoji(e)
    \/ \E v \in VoteIds : add_vote(PyInt(v)) \/ add_vote(Vote(v))
    \/ \E i \in 1..MaxFetch, t \in {PyStr(x) : x \in VoteTitles} \cup {None} :
            add_vote_title(i, t)
    \/ \E p \in Pictures : add_image(p)
    \/ \E o \in Oids : set_attach_card(o)
    \/ \E t \in TopicIds : set_topic(PyInt(t)) \/ set_topic(Topic(t))
    \/ \E f \in OptionFlags : set_options(f[1], f[2])
    \/ \E t \in SendTasks, c \in {c \in Credentials : c.sessdata = c.bili_jct} :
            send_dynamic(t, c)
    \/ \E t \in SendTasks, o \in Outcomes : send_dynamic_ends(t, o)

SpecBuild == InitBuild /\ [][NextBuild]_vars

----------------------------------------------------------------------------
\* Specification of the operations on an empty builder

InitOps == InitBuild

\* The operations share no state: a behaviour is one call, made on a fresh
\* process, followed to its end.
Fresh == op = "none"

NextOps ==
    \/ Fresh /\ \E t \in SendTasks, c \in Credentials : send_dynamic(t, c)
    \/ \E t \in SendTasks, o \in Outcomes : send_dynamic_ends(t, o)
    \/ Fresh /\ \E p \in Pictures, c \in Credentials : upload_image(p, c)
    \/ Fresh /\ \E d \in DynamicIds, c \in Credentials : Dynamic_delete(d, c)
    \/ Fresh /\ \E d \in DynamicIds, st \in BOOLEAN, c \in Credentials :
            Dynamic_set_like(d, st, c)
    \/ \E mid \in {PyInt(u) : u \in UIDs} \cup {None, KeyError} :
            Dynamic_set_like_self_info(mid)
    \/ Fresh /\ \E c \in Credentials : get_schedules_list(c)
    \/ Fresh /\ \E d \in DraftIds, c \in Credentials : send_schedule_now(d, c)
    \/ Fresh /\ \E d \in DraftIds, c \in Credentials : delete_schedule(d, c)
    \/ Fresh /\ \E c \in Credentials, ty \in DynamicTypes \cup {None},
                   h \in {None, PyInt(0), PyInt(1)}, pn \in {1, 2},
                   off \in {None, PyInt(9)} :
            get_dynamic_page_info(c, ty, h, pn, off)
    \/ Fresh /\ \E d \in DynamicIds, t \in Texts, c \in Credentials :
            Dynamic_repost(d, t, c)
    \/ parse_name2uid
    \/ parse_match_not_found
    \/ parse_match_raises
    \/ parse_match_empty
    \/ \E u \in UIDs : parse_match_uid(u)
    \/ parse_info_raises
    \/ parse_info_no_name
    \/ \E n \in UserNames : parse_match_found(n)
    \/ parse_return
    \/ \E o \in Outcomes : request_ends(o)

SpecOps == InitOps /\ [][NextOps]_vars

----------------------------------------------------------------------------
\* Properties of the builder and its submission (checked under SpecBuild)

IsPrefix(s, t) == Len(s) <= Len(t) /\ SubSeq(t, 1, Len(s)) = s

\* the state in which send_dynamic has just issued its request
Sent == op = "send_dynamic" /\ pc = "request"
body == net[1].data.dyn_req

\* C1: get_dynamic_type() is IMAGE (2) iff add_image has been called at least
\* once on the builder and TEXT (1) otherwise, whatever other builder methods
\* were called and in whatever order; the scene of the send_dynamic request
\* body is that value.
C1_SceneIffImageAdded ==
    LET expected == IF add_image_calls >= 1 THEN 2 ELSE 1
    IN  /\ get_dynamic_type = expected
        /\ Sent => body.scene = expected

C1_Witness ==
    /\ Sent
    /\ add_image_calls >= 1
    /\ Len(contents) >= 2
    /\ topic # None
    /\ body.scene = 2

\* C2: the send_dynamic request body has the key pics iff the builder holds
\* an image, topic iff a topic is set, option iff an option flag is set, and
\* always attach_card: the card wrapped under common_card when one is set,
\* explicit null otherwise.  add_text("hi").add_image(u, 10, 20) yields
\* scene 2, the one text fragment, the one picture and attach_card null.
C2_BodyKeys ==
    Sent =>
        /\ ("pics" \in DOMAIN body) <=> (Len(pics) >= 1)
        /\ ("topic" \in DOMAIN body) <=> (topic # None)
        /\ ("option" \in DOMAIN body) <=> (DOMAIN options # {})
        /\ "attach_card" \in DOMAIN body
        /\ IF attach_card = None
           THEN body.attach_card = None
           ELSE /\ body.attach_card[1] = "dict"
                /\ DOMAIN body.attach_card[2] = {"common_card"}
                /\ body.attach_card[2].common_card = attach_card[2]
        /\ ( /\ Len(contents) = 1
             /\ contents[1].raw_text = <<"h", "i">>
             /\ Len(pics) = 1
             /\ pics[1].img_src = <<"u">>
             /\ attach_card = None /\ topic = None /\ DOMAIN options = {} )
           => /\ DOMAIN body = {"content", "scene", "meta", "pics", "attach_card"}
              /\ body.scene = 2
              /\ body.content.contents =
                    <<[biz_id |-> PyStr(<<>>), type |-> 1, raw_text |-> <<"h", "i">>]>>
              /\ body.pics =
                    <<[img_src |-> <<"u">>, img_width |-> 10, img_height |-> 20]>>

C2_Witness ==
    /\ Sent
    /\ attach_card # None
    /\ topic # None
    /\ DOMAIN options = {"up_choose_comment", "close_comment"}
    /\ Len(pics) = 0
    /\ DOMAIN body = {"content", "scene", "meta", "topic", "option", "attach_card"}

\* C4: a builder call that fails leaves contents, pics, attach_card, topic
\* and options exactly as they were before the call.  The step in which a
\* call fails changes none of them, and when it is add_vote that fails the
\* contents are the fragments there were when add_vote was called.
C4_FailedCallLeavesBuilder ==
    [][(op' \in BuilderOps /\ err' # "none") =>
            /\ UNCHANGED builder
            /\ op' = "add_vote" =>
                    \E i \in 1..Len(fetching) :
                        /\ fetching' = Remove(fetching, i)
                        /\ Len(contents') = fetching[i].at]_vars

\* C8: add_at appends exactly one fragment, of type AT (2), whose biz_id is
\* the user id, for a raw id and for a User handle alike, and never fails.
C8_AddAtAppendsMention ==
    [][op' = "add_at" =>
            /\ err' = "none"
            /\ Len(contents') = Len(contents) + 1
            /\ SubSeq(contents', 1, Len(contents)) = contents
            /\ contents'[Len(contents')].type = DynmaicContentType_AT
            /\ contents'[Len(contents')].biz_id =
                   (IF IsInstance(args'.user, "int") THEN args'.user
                    ELSE PyInt(args'.user[3][Mangle("User", "__uid")]))]_vars

VoteText == [biz_id |-> PyStr(<<>>), type |-> 1, raw_text |-> VOTE_TEXT]

\* C10: the builder is append-only.  Every step of a builder call leaves the
\* old contents and pics as prefixes of the new ones; add_text, add_at and
\* add_emoji append at most one fragment, add_image appends the picture it
\* is given; add_vote appends its fixed text fragment and, once it has the
\* title, the vote fragment, which comes immediately after the text when no
\* other thread has appended in between; and send_dynamic submits exactly
\* the accumulated contents and pics, in order.
C10_Step ==
    /\ IsPrefix(contents, contents')
    /\ IsPrefix(pics, pics')
    /\ op' \in {"add_text", "add_emoji"} =>
            /\ Len(contents') = Len(contents) + 1
            /\ contents'[Len(contents')].type =
                   (IF op' = "add_text" THEN 1 ELSE 9)
    /\ op' = "add_at" => Len(contents') <= Len(contents) + 1
    /\ (op' = "add_vote" /\ pc' = "get_title") =>
            contents' = Append(contents, VoteText)
    /\ (op' = "add_vote" /\ pc' = "done" /\ err' = "none") =>
            \E i \in 1..Len(fetching) :
                LET was == fetching[i].at
                IN  /\ fetching' = Remove(fetching, i)
                    /\ Len(contents') = Len(contents) + 1
                    /\ contents'[Len(contents')].type = 4
                    /\ contents'[was + 1] = VoteText
                    /\ Len(contents) = was + 1 =>
                            contents'[Len(contents') - 1] = VoteText
    /\ op' = "add_image" =>
            /\ pics' = Append(pics, [img_src |-> args'.image.url,
                                     img_width |-> args'.image.width,
                                     img_height |-> args'.image.height])
            /\ contents' = contents
    /\ op' \in {"set_attach_card", "set_topic", "set_options", "send_dynamic"} =>
            /\ contents' = contents
            /\ pics' = pics

C10_Submitted ==
    Sent => /\ body.content.contents = contents
            /\ Len(pics) >= 1 => body.pics = pics

\* C10: the builder is append-only (C10_Step on every step) and send_dynamic
\* submits the accumulated fragments and pictures in order (C10_Submitted).
C10_AppendOnly == [](C10_Submitted) /\ [][C10_Step]_vars

C10_Witness ==
    /\ Sent
    /\ Len(contents) >= 2
    /\ contents[Len(contents)].type = 4
    /\ contents[Len(contents) - 1].raw_text = VOTE_TEXT
    /\ Len(pics) >= 1

----------------------------------------------------------------------------
\* Properties of the operations (checked under SpecOps)

GuardedOps == {"send_dynamic", "Dynamic.delete", "Dynamic.repost",
               "Dynamic.set_like", "upload_image", "get_schedules_list",
               "send_schedule_now", "delete_schedule"}

\* the secrets an operation requires
RequiredSecrets(o) ==
    IF o \in {"Dynamic.set_like", "upload_image"}
    THEN {"sessdata", "bili_jct"} ELSE {"sessdata"}

\* C3: when a secret the operation requires is absent, the operation has
\* ended with the precondition error for that secret and has issued no
\* network call at all: no request, no self-info fetch, no name lookup.
C3_GuardBeforeNetwork ==
    (op \in GuardedOps /\ \E k \in RequiredSecrets(op) : ~cred[k]) =>
        /\ pc = "done"
        /\ net = <<>>
        /\ err = (IF ~cred.sessdata THEN "CredentialNoSessdataException"
                  ELSE "CredentialNoBiliJctException")

C3_Witness ==
    /\ op = "Dynamic.set_like"
    /\ cred.sessdata /\ ~cred.bili_jct
    /\ err = "CredentialNoBiliJctException"
    /\ net = <<>>

\* _parse_at has run to its end: it returned, or raised out of its own code
ParseEnded ==
    /\ op = "Dynamic.repost"
    /\ pc = "done"
    /\ (ret # None \/ err = "ValueError")

EmptyJson == <<"[", "]">>

\* C5 as stated: for a text in which the pattern finds no mention, _parse_at
\* returns the text itself, an empty uid list and '[]'.
C5_TextUnchanged ==
    (ParseEnded /\ finditer(args.text) = <<>>) =>
        /\ ret # None
        /\ ret = <<args.text, <<>>, EmptyJson>>

\* C5 as amended: for a text without the character @, _parse_at issues no
\* lookup and returns the text followed by one space, an empty uid list
\* and '[]'.
C5_TextPlusSpace ==
    ( /\ op = "Dynamic.repost"
      /\ pc = "done"
      /\ cred.sessdata
      /\ \A i \in 1..Len(args.text) : args.text[i] # "@" ) =>
        /\ ret = <<args.text \o <<" ">>, <<>>, EmptyJson>>
        /\ \A i \in 1..Len(net) : net[i].fn = "request"

C5_Witness ==
    /\ op = "Dynamic.repost"
    /\ pc = "done"
    /\ args.text = <<"a", " ", "1">>
    /\ ret = <<<<"a", " ", "1", " ">>, <<>>, EmptyJson>>

\* C6: for a text with one mention that resolves to a user, whatever
\* display name the user info gives, _parse_at returns; the text contains
\* @<name>, the uid list has the one uid, and the one control record has
\* length 2 + len(name) and the offset of @<name> in the returned text.
C6_OneMentionResolved ==
    ( /\ ParseEnded
      /\ Len(matches) = 1
      /\ Len(names) = 1 ) =>
        /\ err # "ValueError"
        /\ ret # None
        /\ Index(ret[1], <<"@">> \o names[1]) # -1
        /\ ret[2] = uid_list[1]
        /\ Len(ctrl) = 1
        /\ ctrl[1].length = 2 + Len(names[1])
        /\ ctrl[1].location = Index(ret[1], <<"@">> \o names[1])

\* the name lookups of the call, in order
Lookups == SelectSeq(net, LAMBDA c : c.fn = "name2uid")

NotFound(c) == c.fn = "name2uid" /\ c.result = KeyError

\* C7: a mention whose name lookup finds no user does not make _parse_at
\* raise.  The pass of the loop that meets it changes nothing (text, uid
\* list, names) and goes on to the next mention; every mention of the text
\* is looked up, in order, the uid list holding exactly the found ones; and a
\* text whose mentions are all unknown is returned with an empty uid list and
\* an empty control array.
C7_Step ==
    (pc = "name2uid" /\ Len(net') = Len(net) /\ NotFound(net'[Len(net')])) =>
        /\ err' = "none"
        /\ pc' = "loop"
        /\ idx' = idx + 1
        /\ new_text' = new_text
        /\ uid_list' = uid_list
        /\ names' = names

C7_End ==
    ( /\ op = "Dynamic.repost"
      /\ pc = "done"
      /\ cred.sessdata
      /\ err \notin {"NetworkException", "IndexError", "KeyError"} ) =>
        /\ Len(Lookups) = Len(matches)
        /\ \A i \in 1..Len(matches) : Lookups[i].arg = group(text, matches[i])
        /\ LET found == SelectSeq(Lookups, LAMBDA c : c.result # KeyError)
           IN  uid_list = [i \in 1..Len(found) |-> Str(found[i].result[2])]
        /\ (\A i \in 1..Len(Lookups) : NotFound(Lookups[i])) =>
                /\ err # "ValueError"
                /\ ret = <<text, <<>>, EmptyJson>>

\* C7: an unknown user is skipped (C7_Step on every step) and the other
\* mentions are still processed (C7_End).
C7_UnknownUserSkipped == [](C7_End) /\ [][C7_Step]_vars

C7_Witness ==
    /\ op = "Dynamic.repost"
    /\ pc = "done"
    /\ Len(matches) = 2
    /\ Len(Lookups) = 2
    /\ NotFound(Lookups[1])
    /\ ~NotFound(Lookups[2])
    /\ Len(uid_list) = 1
    /\ ret # None

\* the query parameters get_dynamic_page_info sent
params == net[1].params

\* C9: in get_dynamic_page_info a type filter, when given, is sent as type
\* and host_mid is not sent, even when a host_mid is given too; host_mid is
\* sent only when no type filter is given and a host_mid is; the two are
\* never sent together.
C9_TypeBeforeHost ==
    op = "get_dynamic_page_info" =>
        /\ args._type # None =>
                /\ "type" \in DOMAIN params
                /\ params.type = args._type[3]
                /\ "host_mid" \notin DOMAIN params
        /\ "host_mid" \in DOMAIN params =>
                /\ args._type = None
                /\ args.host_mid # None
                /\ params.host_mid = args.host_mid[2]
        /\ ~("type" \in DOMAIN params /\ "host_mid" \in DOMAIN params)

C9_Witness ==
    /\ op = "get_dynamic_page_info"
    /\ args._type # None
    /\ args.host_mid = PyInt(1)
    /\ "type" \in DOMAIN params
    /\ "host_mid" \notin DOMAIN params

\* the user-info fetches of the call, in order: one per resolved mention
Resolved == SelectSeq(net, LAMBDA c : c.fn = "get_user_info")

\* C11: when _parse_at returns, its uid list is the ids of the resolved
\* mentions joined by commas in encounter order, one entry per occurrence
\* (a user mentioned twice appears twice), and its control array is the JSON
\* of one record per resolved mention in the same order: data the mention's
\* uid, length 2 + len(name), location the offset of the first occurrence of
\* @<name> in the returned text.
C11_UidsAndControlInOrder ==
    (op = "Dynamic.repost" /\ pc = "done" /\ ret # None) =>
        LET n == Len(Resolved)
            expected == [i \in 1..n |->
                [location |-> Index(ret[1], <<"@">> \o Resolved[i].name),
                 type |-> 1,
                 length |-> 2 + Len(Resolved[i].name),
                 data |-> Resolved[i].uid]]
        IN  /\ ret[2] = Join(<<",">>, [i \in 1..n |-> Str(Resolved[i].uid)])
            /\ \A i \in 1..n : expected[i].location >= 0
            /\ ret[3] = JsonDumps(expected)
            /\ Len(ctrl) = n
            /\ \A i \in 1..n : ctrl[i] = expected[i]

C11_Witness ==
    /\ op = "Dynamic.repost"
    /\ pc = "done"
    /\ ret # None
    /\ Len(Resolved) = 2
    /\ Resolved[1].uid = Resolved[2].uid
    /\ ret[2] = <<"1", ",", "1">>
    /\ Len(ctrl) = 2
    /\ ctrl[1].location = ctrl[2].location

====
